---- MODULE Spec2Model ----
(***************************************************************************)
(* Multi-sensor API server (src/server.py): five sensors on GPIO pins, a   *)
(* background poller thread (continuous_reading) and the HTTP handlers     *)
(* that read and refresh them.                                             *)
(*                                                                         *)
(* Encoding of Python values                                               *)
(*   floats      fixed point: distance and ppm and light percentage in     *)
(*               hundredths (round(x, 2)), temperature and humidity in     *)
(*               tenths (round(x, 1));                                     *)
(*   datetimes   the value of the clock `now`, in ticks; NoTime is None;   *)
(*   a result    a record [kind |-> "val", ...], [kind |-> "none"] for     *)
(*               None and [kind |-> "raise"] for an escaping exception.    *)
(***************************************************************************)
EXTENDS Integers, Sequences, FiniteSets, TLC

VARIABLES
    SIMULATION_MODE,  \* server.py:23-30, fixed at import time
    now,              \* the wall clock, in ticks
    sensors,          \* the registry: sensor type -> that sensor's fields
    lock,             \* sensor type -> the thread holding BaseSensor.lock
    loc,              \* thread -> its position and local variables
    response,         \* what the last finished HTTP request returned
    budget,           \* requests, clock advances, commits and exceptions still allowed
    fed,              \* history: the motion samples PIRSensor.update_reading committed
                      \* (kept in the bounded specifications only)
    good              \* history: sensor type -> an update committed a successful sample

vars == <<SIMULATION_MODE, now, sensors, lock, loc, response, budget, fed, good>>

-----------------------------------------------------------------------------
(* Bounds of the model *)

MaxEvents == 3        \* requests, clock advances, commits and unexpected
                      \* exceptions in a behaviour of the whole server (Spec)
MaxPollerEvents == 4  \* the same, in a behaviour of the poller alone (SpecPoller)
MaxMotionSamples == 6 \* motion samples committed in a behaviour of SpecMotion
MaxLog == 12          \* alerts a sensor's log holds when a behaviour of SpecAlerts starts
MaxAlertsEvents == 2  \* requests, clock advances and commits in a behaviour of SpecAlerts
MaxQuietEvents == 8   \* requests, clock advances and commits in a behaviour of SpecQuiet
MaxRaceEvents == 4    \* requests, clock advances and commits in a behaviour of SpecRace
LoopTickMs == 50      \* what time.time() advances by between two looks at it (SpecLoops)
LoopStride == 50000   \* iterations of an RC count loop taken in one step (SpecLoops)
TicksPerSecond == 2 \* resolution of datetime.now() relative to int(time.time())

-----------------------------------------------------------------------------
(* Program constants *)

NoTime == -1                        \* last_reading_time = None
min_distance_threshold == 10        \* cm
max_distance_threshold == 200       \* cm
MinRange == 2                       \* HC-SR04 range, cm
MaxRange == 400
SpeedOfSound == 34300               \* cm/s
danger_threshold == 1000            \* ppm
warning_threshold == 500
PpmCap == 2000
temp_high_threshold == 35           \* Celsius
temp_low_threshold == 5
humidity_high_threshold == 80       \* percent
humidity_low_threshold == 20
HumidityMin == 20                   \* DHT11 validation
HumidityMax == 95
TemperatureMin == 0
TemperatureMax == 60
dark_threshold == 20                \* percent
bright_threshold == 80
max_dark == 1000000                 \* RC count, very dark
min_bright == 1000                  \* RC count, very bright
motion_timeout == 30                \* seconds
RecentAlerts == 10                  \* sensor.alerts[-10:]
EchoTimeoutMs == 100                \* `> 0.1` in both echo waits
MQ135CountCap == 100000             \* read_analog: `count > 100000`
MQ135TimeCapMs == 1000              \* read_analog: `> 1` second
LDRCountCap == 1000000              \* rc_time: `count > 1000000`
LDRTimeCapMs == 2000                \* rc_time: `> 2` seconds

SensorTypes == <<"ultrasonic", "mq135", "dht11", "ldr", "pir">>
SensorSet == {SensorTypes[i] : i \in 1..Len(SensorTypes)}

sensor_id(s) ==
    CASE s = "ultrasonic" -> "ULTRASONIC-01"
      [] s = "mq135" -> "MQ135-01"
      [] s = "dht11" -> "DHT11-01"
      [] s = "ldr" -> "LDR-01"
      [] s = "pir" -> "PIR-01"

asset_id(s) ==
    CASE s = "ultrasonic" -> "DIST-SENSOR-01"
      [] s = "mq135" -> "AIR-QUALITY-01"
      [] s = "dht11" -> "TEMP-HUM-01"
      [] s = "ldr" -> "LIGHT-SENSOR-01"
      [] s = "pir" -> "MOTION-SENSOR-01"

Threads == {"poller", "http"}

-----------------------------------------------------------------------------
(* Arithmetic *)

\* round(n / d) to the nearest integer, ties to even, for n >= 0 and d > 0
RoundDiv(n, d) ==
    LET q == n \div d
        r == n % d
    IN  IF 2 * r < d THEN q
        ELSE IF 2 * r > d THEN q + 1
        ELSE IF q % 2 = 0 THEN q ELSE q + 1

None == [kind |-> "none"]
Raise == [kind |-> "raise"]

Max(a, b) == IF a >= b THEN a ELSE b
Min(a, b) == IF a <= b THEN a ELSE b

-----------------------------------------------------------------------------
(* What the pin driver can do during one measurement (the environment) *)

\* HC-SR04: a GPIO call failing; the echo pin already high when the first
\* loop starts; the echo never rising; the echo low again when the second
\* loop starts; the echo never falling; or a pulse of `us` microseconds.
UltrasonicInputs ==
    {[echo |-> k, us |-> 0] :
        k \in {"gpio_error", "already_high", "never_rises", "fell_early", "never_falls"}}
    \cup {[echo |-> "pulse", us |-> d] : d \in {58, 300, 1000, 20000, 26240}}

\* MQ-135: a GPIO call failing, or the digital level and the RC count.
MQ135Inputs ==
    {[gpio |-> "error", digital |-> 0, count |-> 0]}
    \cup {[gpio |-> "ok", digital |-> 1, count |-> 0],
          [gpio |-> "ok", digital |-> 0, count |-> 7000],
          [gpio |-> "ok", digital |-> 0, count |-> 15000]}

\* DHT11: Adafruit_DHT.read_retry raising, returning (None, None), or
\* returning humidity and temperature (tenths).
DHT11Inputs ==
    {[dht |-> k, humidity |-> 0, temperature |-> 0] : k \in {"error", "none"}}
    \cup {[dht |-> "val", humidity |-> 500, temperature |-> 250],
          [dht |-> "val", humidity |-> 500, temperature |-> 360],
          [dht |-> "val", humidity |-> 850, temperature |-> 360],
          [dht |-> "val", humidity |-> 500, temperature |-> 30],
          [dht |-> "val", humidity |-> 150, temperature |-> 250]}

\* LDR: a GPIO call failing, or the RC count.
LDRInputs ==
    {[gpio |-> "error", count |-> 0]}
    \cup {[gpio |-> "ok", count |-> c] : c \in {0, 500, 500500, 1000001}}

\* PIR: a GPIO call failing, or the level of the data pin.
PIRInputs ==
    {[gpio |-> "error", level |-> 0]}
    \cup {[gpio |-> "ok", level |-> l] : l \in {0, 1}}

Inputs(s) ==
    CASE s = "ultrasonic" -> UltrasonicInputs
      [] s = "mq135" -> MQ135Inputs
      [] s = "dht11" -> DHT11Inputs
      [] s = "ldr" -> LDRInputs
      [] s = "pir" -> PIRInputs

-----------------------------------------------------------------------------
(* Measurement engine *)

\* a plausible bug: the measurement's body without its try/except
Absorb_nothing(r) == r

\* `except Exception as e: ... return None` around a measurement's body
Absorb(r) == IF r = Raise THEN None ELSE r

\* a plausible bug: the round trip not halved
measure_distance_one_way(in) ==
    CASE in.echo = "gpio_error" -> Raise
      [] in.echo = "never_rises" -> None
      [] in.echo = "never_falls" -> None
      [] in.echo = "already_high" -> Raise
      [] in.echo = "fell_early" -> Raise
      [] in.echo = "pulse" ->
            IF /\ MinRange * 1000000 <= in.us * SpeedOfSound
               /\ in.us * SpeedOfSound <= MaxRange * 1000000
            THEN [kind |-> "val", distance |-> RoundDiv(in.us * SpeedOfSound, 10000)]
            ELSE None

\* a plausible bug: the echo's distance clamped into the valid range
measure_distance_clamped(in) ==
    CASE in.echo = "gpio_error" -> Raise
      [] in.echo = "never_rises" -> None
      [] in.echo = "never_falls" -> None
      [] in.echo = "already_high" -> Raise
      [] in.echo = "fell_early" -> Raise
      [] in.echo = "pulse" ->
            [kind |-> "val",
             distance |-> Max(MinRange * 100,
                              Min(MaxRange * 100, RoundDiv(in.us * SpeedOfSound, 20000)))]

\* the try block of measure_distance; distance in hundredths of a cm
measure_distance_try(in) ==
    CASE in.echo = "gpio_error" -> Raise
      [] in.echo = "never_rises" -> None
      [] in.echo = "never_falls" -> None
      [] in.echo = "already_high" -> Raise   \* pulse_start is unbound
      [] in.echo = "fell_early" -> Raise     \* pulse_end is unbound
      [] in.echo = "pulse" ->
            IF /\ MinRange * 2 * 1000000 <= in.us * SpeedOfSound
               /\ in.us * SpeedOfSound <= MaxRange * 2 * 1000000
            THEN [kind |-> "val", distance |-> RoundDiv(in.us * SpeedOfSound, 20000)]
            ELSE None

measure_distance(sim, in) ==
    IF sim THEN None ELSE Absorb(measure_distance_try(in))

\* the try block of read_air_quality; ppm in hundredths
read_air_quality_try(in) ==
    IF in.gpio = "error" THEN Raise
    ELSE [kind |-> "val",
          gas_detected |-> (in.digital = 0),
          ppm |-> IF in.count > 0 THEN Min(in.count * 10, PpmCap * 100) ELSE 0]

read_air_quality(sim, in) ==
    IF sim THEN None ELSE Absorb(read_air_quality_try(in))

\* the try block of read_temp_humidity; tenths
read_temp_humidity_try(in) ==
    CASE in.dht = "error" -> Raise
      [] in.dht = "none" -> None
      [] in.dht = "val" ->
            IF /\ HumidityMin * 10 <= in.humidity /\ in.humidity <= HumidityMax * 10
               /\ TemperatureMin * 10 <= in.temperature
               /\ in.temperature <= TemperatureMax * 10
            THEN [kind |-> "val", humidity |-> in.humidity, temperature |-> in.temperature]
            ELSE None

read_temp_humidity(sim, in) ==
    IF sim THEN None ELSE Absorb(read_temp_humidity_try(in))

\* a plausible bug: the polarity of the conversion inverted
light_percentage_inverted(raw) ==
    IF raw >= max_dark THEN 10000
    ELSE IF raw <= min_bright THEN 0
    ELSE Max(0, Min(10000,
            RoundDiv(10 * (raw - min_bright), (max_dark - min_bright) \div 1000)))

\* the count-to-percentage conversion of read_light_level; hundredths of a
\* percent: 100 * (1 - (raw - min_bright) / (max_dark - min_bright)) is
\* 100 * (max_dark - raw) / (max_dark - min_bright); the fraction is reduced
\* by 1000 (which divides max_dark - min_bright) to stay within 32 bits
light_percentage_of(raw) ==
    IF raw >= max_dark THEN 0
    ELSE IF raw <= min_bright THEN 10000
    ELSE Max(0, Min(10000,
            RoundDiv(10 * (max_dark - raw), (max_dark - min_bright) \div 1000)))

\* the try block of read_light_level
read_light_level_try(in) ==
    IF in.gpio = "error" THEN Raise
    ELSE IF in.count > 0
         THEN [kind |-> "val", raw |-> in.count, percentage |-> light_percentage_of(in.count)]
         ELSE None

read_light_level(sim, in) ==
    IF sim THEN None ELSE Absorb(read_light_level_try(in))

\* the try block of read_motion
read_motion_try(in) ==
    IF in.gpio = "error" THEN Raise
    ELSE [kind |-> "val", motion |-> (in.level # 0)]

read_motion(sim, in) ==
    IF sim THEN None ELSE Absorb(read_motion_try(in))

\* the measurement update_reading starts with
measure(s, sim, in) ==
    CASE s = "ultrasonic" -> measure_distance(sim, in)
      [] s = "mq135" -> read_air_quality(sim, in)
      [] s = "dht11" -> read_temp_humidity(sim, in)
      [] s = "ldr" -> read_light_level(sim, in)
      [] s = "pir" -> read_motion(sim, in)

-----------------------------------------------------------------------------
(* Sensor state machines *)

\* a plausible bug: the alert names the fixed asset and carries a bare
\* timestamp as its id
generate_alert_anonymous(s, alert_type, description, failure_class, t) ==
    [AlertType |-> alert_type,
     assetId |-> "MCN-02",
     Description |-> description,
     Date |-> t,
     anchor |-> "MCN-02",
     Failure_Class |-> failure_class,
     id |-> <<"", t \div TicksPerSecond>>]

\* BaseSensor.generate_alert at clock t: Date is datetime.now() (its
\* isoformat string is taken where the code compares Dates), the id is
\* the sensor id joined with int(time.time())
generate_alert(s, alert_type, description, failure_class, t) ==
    [AlertType |-> alert_type,
     assetId |-> "MCN-02",
     Description |-> description,
     Date |-> t,
     anchor |-> asset_id(s),
     Failure_Class |-> failure_class,
     id |-> <<sensor_id(s), t \div TicksPerSecond>>]

\* the fields each __init__ sets
InitSensor(s) ==
    CASE s = "ultrasonic" ->
            [distance |-> 0, last_reading_time |-> NoTime, alerts |-> <<>>]
      [] s = "mq135" ->
            [air_quality_ppm |-> 0, gas_detected |-> FALSE,
             last_reading_time |-> NoTime, alerts |-> <<>>]
      [] s = "dht11" ->
            [temperature |-> 0, humidity |-> 0,
             last_reading_time |-> NoTime, alerts |-> <<>>]
      [] s = "ldr" ->
            [light_level |-> 0, light_percentage |-> 0,
             last_reading_time |-> NoTime, alerts |-> <<>>]
      [] s = "pir" ->
            [motion_detected |-> FALSE, motion_count |-> 0, last_motion_time |-> NoTime,
             last_reading_time |-> NoTime, alerts |-> <<>>]

\* whether update_reading enters its `with self.lock:` block for result r
\* (PIRSensor.update_reading enters it whatever read_motion returned)
Commits(s, r) == s = "pir" \/ r.kind = "val"

\* the alerts UltrasonicSensor.update_reading appends for a distance
ultrasonic_alerts(distance, t) ==
    IF distance < min_distance_threshold * 100
    THEN <<generate_alert("ultrasonic", "Proximity Alert",
                          <<"within", min_distance_threshold, distance>>,
                          "Proximity_Warning", t)>>
    ELSE IF distance > max_distance_threshold * 100
    THEN <<generate_alert("ultrasonic", "Range Alert", <<"out of range", distance>>,
                          "Range_Warning", t)>>
    ELSE <<>>

\* a plausible bug: the log assigned the new alerts instead of extended
ultrasonic_commit_replacing(self, r, t) ==
    [self EXCEPT !.distance = r.distance,
                 !.last_reading_time = t,
                 !.alerts = ultrasonic_alerts(r.distance, t)]

\* a plausible bug: a hysteretic rule, which alerts only when the previous
\* reading did not already raise the alert
ultrasonic_commit_hysteretic(self, r, t) ==
    [self EXCEPT !.distance = r.distance,
                 !.last_reading_time = t,
                 !.alerts = IF /\ self.last_reading_time # NoTime
                               /\ ultrasonic_alerts(self.distance, t)
                                    = ultrasonic_alerts(r.distance, t)
                            THEN self.alerts
                            ELSE self.alerts \o ultrasonic_alerts(r.distance, t)]

\* the `with self.lock:` block of UltrasonicSensor.update_reading
ultrasonic_commit(self, r, t) ==
    [self EXCEPT !.distance = r.distance,
                 !.last_reading_time = t,
                 !.alerts = self.alerts \o ultrasonic_alerts(r.distance, t)]

mq135_alerts(ppm, t) ==
    IF ppm > danger_threshold * 100
    THEN <<generate_alert("mq135", "Air Quality Critical", <<"dangerous", ppm>>,
                          "Air_Quality_Critical", t)>>
    ELSE IF ppm > warning_threshold * 100
    THEN <<generate_alert("mq135", "Air Quality Warning", <<"poor", ppm>>,
                          "Air_Quality_Warning", t)>>
    ELSE <<>>

\* the `with self.lock:` block of MQ135Sensor.update_reading
mq135_commit(self, r, t) ==
    [self EXCEPT !.gas_detected = r.gas_detected,
                 !.air_quality_ppm = r.ppm,
                 !.last_reading_time = t,
                 !.alerts = self.alerts \o mq135_alerts(r.ppm, t)]

\* a plausible bug: the two temperature rules with their thresholds swapped
temperature_alerts_swapped(temperature, t) ==
    IF temperature > temp_low_threshold * 10
    THEN <<generate_alert("dht11", "Temperature Alert", <<"high", temperature>>,
                          "Temperature_High", t)>>
    ELSE IF temperature < temp_high_threshold * 10
    THEN <<generate_alert("dht11", "Temperature Alert", <<"low", temperature>>,
                          "Temperature_Low", t)>>
    ELSE <<>>

\* the temperature rules of DHT11Sensor.update_reading (tenths)
temperature_alerts(temperature, t) ==
    IF temperature > temp_high_threshold * 10
    THEN <<generate_alert("dht11", "Temperature Alert", <<"high", temperature>>,
                          "Temperature_High", t)>>
    ELSE IF temperature < temp_low_threshold * 10
    THEN <<generate_alert("dht11", "Temperature Alert", <<"low", temperature>>,
                          "Temperature_Low", t)>>
    ELSE <<>>

\* the humidity rules of DHT11Sensor.update_reading (tenths)
humidity_alerts(humidity, t) ==
    IF humidity > humidity_high_threshold * 10
    THEN <<generate_alert("dht11", "Humidity Alert", <<"high", humidity>>,
                          "Humidity_High", t)>>
    ELSE IF humidity < humidity_low_threshold * 10
    THEN <<generate_alert("dht11", "Humidity Alert", <<"low", humidity>>,
                          "Humidity_Low", t)>>
    ELSE <<>>

\* the `with self.lock:` block of DHT11Sensor.update_reading
dht11_commit(self, r, t) ==
    [self EXCEPT !.humidity = r.humidity,
                 !.temperature = r.temperature,
                 !.last_reading_time = t,
                 !.alerts = self.alerts \o temperature_alerts(r.temperature, t)
                                        \o humidity_alerts(r.humidity, t)]

ldr_alerts(percentage, t) ==
    IF percentage < dark_threshold * 100
    THEN <<generate_alert("ldr", "Light Level Alert", <<"dark", percentage>>,
                          "Light_Dark", t)>>
    ELSE IF percentage > bright_threshold * 100
    THEN <<generate_alert("ldr", "Light Level Alert", <<"bright", percentage>>,
                          "Light_Bright", t)>>
    ELSE <<>>

\* the `with self.lock:` block of LDRSensor.update_reading
ldr_commit(self, r, t) ==
    [self EXCEPT !.light_level = r.raw,
                 !.light_percentage = r.percentage,
                 !.last_reading_time = t,
                 !.alerts = self.alerts \o ldr_alerts(r.percentage, t)]

\* what read_motion returned, as recorded in the history
Sample(r) == IF r.kind # "val" THEN "none" ELSE IF r.motion THEN "true" ELSE "false"

\* `if motion:` for what read_motion returned (None is falsy)
Truthy(r) == r.kind = "val" /\ r.motion

\* a plausible bug: the motion rule level-triggered, counting every true sample
pir_commit_level(self, r, current_time, t) ==
    IF Truthy(r)
    THEN [self EXCEPT
            !.last_reading_time = current_time,
            !.motion_count = @ + 1,
            !.alerts = Append(@, generate_alert("pir", "Motion Detected",
                                    <<"detections", self.motion_count + 1>>,
                                    "Motion_Detected", t)),
            !.motion_detected = TRUE,
            !.last_motion_time = current_time]
    ELSE [self EXCEPT !.last_reading_time = current_time, !.motion_detected = FALSE]

\* a plausible bug: a failed sample clears the timestamp of the reading
pir_commit_clearing(self, r, current_time, t) ==
    IF Truthy(r)
    THEN [self EXCEPT
            !.last_reading_time = current_time,
            !.motion_count = IF self.motion_detected THEN @ ELSE @ + 1,
            !.alerts = IF self.motion_detected THEN @
                       ELSE Append(@, generate_alert("pir", "Motion Detected",
                                        <<"detections", self.motion_count + 1>>,
                                        "Motion_Detected", t)),
            !.motion_detected = TRUE,
            !.last_motion_time = current_time]
    ELSE [self EXCEPT
            !.last_reading_time = IF r.kind = "val" THEN current_time ELSE NoTime,
            !.motion_detected = FALSE]

\* a plausible bug: the no-motion rule edge-triggered, alerting only on the
\* first sample without motion
pir_commit_timeout_once(self, r, current_time, t) ==
    IF Truthy(r)
    THEN [self EXCEPT
            !.last_reading_time = current_time,
            !.motion_count = IF self.motion_detected THEN @ ELSE @ + 1,
            !.alerts = IF self.motion_detected THEN @
                       ELSE Append(@, generate_alert("pir", "Motion Detected",
                                        <<"detections", self.motion_count + 1>>,
                                        "Motion_Detected", t)),
            !.motion_detected = TRUE,
            !.last_motion_time = current_time]
    ELSE [self EXCEPT
            !.last_reading_time = current_time,
            !.motion_detected = FALSE,
            !.alerts = IF /\ self.motion_detected
                          /\ self.last_motion_time # NoTime
                          /\ current_time - self.last_motion_time
                                > motion_timeout * TicksPerSecond
                       THEN Append(@, generate_alert("pir", "No Motion Alert",
                                        <<"no motion for over", motion_timeout>>,
                                        "Motion_Timeout", t))
                       ELSE @]

\* the `with self.lock:` block of PIRSensor.update_reading: current_time was
\* taken before the lock, alerts are generated at clock t
pir_commit(self, r, current_time, t) ==
    IF Truthy(r)
    THEN [self EXCEPT
            !.last_reading_time = current_time,
            !.motion_count = IF self.motion_detected THEN @ ELSE @ + 1,
            !.alerts = IF self.motion_detected THEN @
                       ELSE Append(@, generate_alert("pir", "Motion Detected",
                                        <<"detections", self.motion_count + 1>>,
                                        "Motion_Detected", t)),
            !.motion_detected = TRUE,
            !.last_motion_time = current_time]
    ELSE [self EXCEPT
            !.last_reading_time = current_time,
            !.motion_detected = FALSE,
            !.alerts = IF /\ self.last_motion_time # NoTime
                          /\ current_time - self.last_motion_time
                                > motion_timeout * TicksPerSecond
                       THEN Append(@, generate_alert("pir", "No Motion Alert",
                                        <<"no motion for over", motion_timeout>>,
                                        "Motion_Timeout", t))
                       ELSE @]

\* the `with self.lock:` block of update_reading of sensor s
commit(s, self, r, current_time, t) ==
    CASE s = "ultrasonic" -> ultrasonic_commit(self, r, t)
      [] s = "mq135" -> mq135_commit(self, r, t)
      [] s = "dht11" -> dht11_commit(self, r, t)
      [] s = "ldr" -> ldr_commit(self, r, t)
      [] s = "pir" -> pir_commit(self, r, current_time, t)

\* 'status' of every get_reading
status(self) == IF self.last_reading_time # NoTime THEN "active" ELSE "no_reading"

\* get_reading of sensor s with fields self, called at clock t
get_reading(s, self, t) ==
    CASE s = "ultrasonic" ->
            [sensor_type |-> "ultrasonic", sensor_id |-> sensor_id(s),
             distance_cm |-> self.distance,
             distance_inches |-> RoundDiv(self.distance * 100, 254),
             timestamp |-> self.last_reading_time, status |-> status(self)]
      [] s = "mq135" ->
            [sensor_type |-> "air_quality", sensor_id |-> sensor_id(s),
             air_quality_ppm |-> self.air_quality_ppm,
             gas_detected |-> self.gas_detected,
             quality_level |->
                IF self.air_quality_ppm > danger_threshold * 100 THEN "Dangerous"
                ELSE IF self.air_quality_ppm > warning_threshold * 100 THEN "Poor"
                ELSE "Good",
             timestamp |-> self.last_reading_time, status |-> status(self)]
      [] s = "dht11" ->
            [sensor_type |-> "temperature_humidity", sensor_id |-> sensor_id(s),
             temperature_celsius |-> self.temperature,
             \* hundredths: round(t * 9 / 5 + 32, 2), t in tenths
             temperature_fahrenheit |-> self.temperature * 18 + 3200,
             humidity_percent |-> self.humidity,
             timestamp |-> self.last_reading_time, status |-> status(self)]
      [] s = "ldr" ->
            [sensor_type |-> "light_sensor", sensor_id |-> sensor_id(s),
             light_level_raw |-> self.light_level,
             light_percentage |-> self.light_percentage,
             light_condition |->
                IF self.light_percentage < dark_threshold * 100 THEN "Dark"
                ELSE IF self.light_percentage > bright_threshold * 100 THEN "Very Bright"
                ELSE "Normal",
             timestamp |-> self.last_reading_time, status |-> status(self)]
      [] s = "pir" ->
            [sensor_type |-> "motion_sensor", sensor_id |-> sensor_id(s),
             motion_detected |-> self.motion_detected,
             motion_count |-> self.motion_count,
             last_motion_time |-> self.last_motion_time,
             \* ticks; None before the first motion and when the difference is 0
             time_since_motion_seconds |->
                IF self.last_motion_time # NoTime /\ t - self.last_motion_time # 0
                THEN t - self.last_motion_time ELSE NoTime,
             timestamp |-> self.last_reading_time, status |-> status(self)]

-----------------------------------------------------------------------------
(* Threads: the poller (continuous_reading) and the HTTP handlers, which are
   `async def` without an await and so run one at a time on the event loop *)

\* a plausible bug: one lock shared by all sensors
LockOf_global(s) == "ultrasonic"

\* the lock update_reading and get_reading of sensor s take: its own
LockOf(s) == s

Index(s) == CHOOSE i \in 1..Len(SensorTypes) : SensorTypes[i] = s

\* the sensor thread t is working on
Target(t) == SensorTypes[loc[t].i]

Idle == [pc |-> "idle", op |-> "none", i |-> 0, res |-> None, ct |-> NoTime, acc |-> <<>>]

NoResponse == [status |-> 0, data |-> <<>>]   \* the request is being served
Ok(data) == [status |-> 200, data |-> data]
NotFound == [status |-> 404, data |-> <<>>]
ServerError == [status |-> 500, data |-> <<>>]

\* datetime.isoformat() of the clock value t, as the characters that decide
\* a comparison of two such strings: the seconds (the fixed-width part up to
\* SS), then "+" (code 43) of "+00:00" when the microseconds are 0 and
\* otherwise "." (code 46) followed by the microseconds
isoformat(t) ==
    IF t % TicksPerSecond = 0
    THEN <<t \div TicksPerSecond, 43, 0>>
    ELSE <<t \div TicksPerSecond, 46, t % TicksPerSecond>>

\* a >= b for two strings of isoformat
StrGeq(a, b) ==
    \/ a[1] > b[1]
    \/ a[1] = b[1] /\ a[2] > b[2]
    \/ a[1] = b[1] /\ a[2] = b[2] /\ a[3] >= b[3]

\* a plausible bug: the oldest ten alerts instead of the newest
LastAlerts_oldest(alerts) == SubSeq(alerts, 1, Min(Len(alerts), RecentAlerts))

\* all_alerts.sort(key=lambda x: x['Date'], reverse=True): the key is the
\* isoformat string; stable, so alerts of equal Date keep their order
RECURSIVE InsertByDate(_, _)
InsertByDate(a, sorted) ==
    IF sorted = <<>> THEN <<a>>
    ELSE IF StrGeq(isoformat(Head(sorted).Date), isoformat(a.Date))
         THEN <<Head(sorted)>> \o InsertByDate(a, Tail(sorted))
         ELSE <<a>> \o sorted

RECURSIVE SortByDateDesc(_)
SortByDateDesc(q) ==
    IF q = <<>> THEN <<>>
    ELSE InsertByDate(q[Len(q)], SortByDateDesc(SubSeq(q, 1, Len(q) - 1)))

\* sensor.alerts[-10:]
LastAlerts(alerts) ==
    SubSeq(alerts, Max(1, Len(alerts) - RecentAlerts + 1), Len(alerts))

\* an event is allowed while the budget is not used up; a negative budget
\* bounds nothing (SpecLive, whose state space is finite without a bound)
Affordable == budget # 0
Spent == IF budget > 0 THEN budget - 1 ELSE budget

Init ==
    /\ SIMULATION_MODE \in BOOLEAN
    /\ now = 0
    /\ sensors = [s \in SensorSet |-> InitSensor(s)]
    /\ lock = [s \in SensorSet |-> "free"]
    /\ loc = [t \in Threads |->
                IF t = "poller" THEN [Idle EXCEPT !.pc = "wait", !.op = "poll"] ELSE Idle]
    /\ response = NoResponse
    /\ budget = MaxEvents
    /\ fed = <<>>
    /\ good = [s \in SensorSet |-> FALSE]

\* the clock advances by one tick
Tick ==
    /\ Affordable
    /\ now' = now + 1
    /\ budget' = Spent
    /\ UNCHANGED <<SIMULATION_MODE, sensors, lock, loc, response, fed, good>>

\* the clock advances by motion_timeout
Quiet ==
    /\ Affordable
    /\ now' = now + motion_timeout * TicksPerSecond
    /\ budget' = Spent
    /\ UNCHANGED <<SIMULATION_MODE, sensors, lock, loc, response, fed, good>>

\* update_reading returns to its caller: the poller's for loop goes on to the
\* next sensor, or to time.sleep(1) after the last; get_live_sensor goes on
\* to get_reading
UpdateReturns(t) ==
    /\ loc' = [loc EXCEPT ![t] =
                IF t = "poller"
                THEN IF @.i < Len(SensorTypes)
                     THEN [@ EXCEPT !.pc = "call", !.i = @ + 1, !.res = None, !.ct = NoTime]
                     ELSE [@ EXCEPT !.pc = "wait", !.i = 0, !.res = None, !.ct = NoTime]
                ELSE [@ EXCEPT !.pc = "get", !.res = None, !.ct = NoTime]]
    /\ UNCHANGED response

\* an exception leaves update_reading: the poller's `except` around the whole
\* for loop logs it and sleeps 5 s; get_live_sensor answers 500
UpdateRaises(t) ==
    IF t = "poller"
    THEN /\ loc' = [loc EXCEPT ![t] = [@ EXCEPT !.pc = "backoff", !.i = 0,
                                                !.res = None, !.ct = NoTime]]
         /\ UNCHANGED response
    ELSE /\ loc' = [loc EXCEPT ![t] = Idle]
         /\ response' = ServerError

\* continuous_reading starts a round: at thread start and after time.sleep(1)
PollerRound ==
    /\ loc["poller"].pc = "wait"
    /\ loc' = [loc EXCEPT !["poller"] = [@ EXCEPT !.pc = "call", !.i = 1]]
    /\ UNCHANGED <<SIMULATION_MODE, now, sensors, lock, response, budget, fed, good>>

\* continuous_reading starts the next round after time.sleep(5)
PollerRetry ==
    /\ loc["poller"].pc = "backoff"
    /\ loc' = [loc EXCEPT !["poller"] = [@ EXCEPT !.pc = "call", !.i = 1]]
    /\ UNCHANGED <<SIMULATION_MODE, now, sensors, lock, response, budget, fed, good>>

\* a plausible bug: `with self.lock:` around the whole of update_reading, so
\* that the lock is taken first and the measurement made while it is held
Measure_under_lock(t) ==
    /\ loc[t].pc = "call"
    /\ IF lock[LockOf(Target(t))] # t
       THEN /\ lock[LockOf(Target(t))] = "free"
            /\ lock' = [lock EXCEPT ![LockOf(Target(t))] = t]
            /\ UNCHANGED <<loc, response, budget>>
       ELSE \E in \in Inputs(Target(t)) :
              LET r == measure(Target(t), SIMULATION_MODE, in) IN
              /\ Commits(Target(t), r) => Affordable
              /\ budget' = IF Commits(Target(t), r) THEN Spent ELSE budget
              /\ lock' = IF Commits(Target(t), r) THEN lock
                         ELSE [lock EXCEPT ![LockOf(Target(t))] = "free"]
              /\ loc' = [loc EXCEPT ![t] =
                            [@ EXCEPT !.pc = IF Commits(Target(t), r)
                                             THEN "locked" ELSE "measured",
                                      !.res = r, !.ct = now]]
              /\ UNCHANGED response
    /\ UNCHANGED <<SIMULATION_MODE, now, sensors, fed, good>>

\* update_reading, first statements: the measurement, outside the lock
\* (and, in PIRSensor, current_time = datetime.now())
Measure(t) ==
    /\ loc[t].pc = "call"
    /\ \E in \in Inputs(Target(t)) :
          LET r == measure(Target(t), SIMULATION_MODE, in) IN
          /\ Commits(Target(t), r) => Affordable
          /\ budget' = IF Commits(Target(t), r) THEN Spent ELSE budget
          /\ IF r = Raise
             THEN UpdateRaises(t)
             ELSE /\ loc' = [loc EXCEPT ![t] = [@ EXCEPT !.pc = "measured", !.res = r,
                                                         !.ct = now]]
                  /\ UNCHANGED response
    /\ UNCHANGED <<SIMULATION_MODE, now, sensors, lock, fed, good>>

\* update_reading with nothing to commit returns
Skip(t) ==
    /\ loc[t].pc = "measured"
    /\ ~Commits(Target(t), loc[t].res)
    /\ UpdateReturns(t)
    /\ UNCHANGED <<SIMULATION_MODE, now, sensors, lock, budget, fed, good>>

\* a plausible bug: the commit entered without waiting for the lock
Acquire_without_waiting(t) ==
    /\ loc[t].pc = "measured"
    /\ Commits(Target(t), loc[t].res)
    /\ lock' = [lock EXCEPT ![LockOf(Target(t))] = t]
    /\ loc' = [loc EXCEPT ![t] = [@ EXCEPT !.pc = "locked"]]
    /\ UNCHANGED <<SIMULATION_MODE, now, sensors, response, budget, fed, good>>

\* update_reading: `with self.lock:` entered
Acquire(t) ==
    /\ loc[t].pc = "measured"
    /\ Commits(Target(t), loc[t].res)
    /\ lock[LockOf(Target(t))] = "free"
    /\ lock' = [lock EXCEPT ![LockOf(Target(t))] = t]
    /\ loc' = [loc EXCEPT ![t] = [@ EXCEPT !.pc = "locked"]]
    /\ UNCHANGED <<SIMULATION_MODE, now, sensors, response, budget, fed, good>>

\* a plausible bug: the alert log a class attribute, one list shared by all
\* sensors
Commit_shared_log(t) ==
    /\ loc[t].pc = "locked"
    /\ LET new == commit(Target(t), sensors[Target(t)], loc[t].res, loc[t].ct, now)
           q == SubSeq(new.alerts, Len(sensors[Target(t)].alerts) + 1, Len(new.alerts))
       IN  sensors' = [s \in SensorSet |->
                        IF s = Target(t) THEN new
                        ELSE [sensors[s] EXCEPT !.alerts = @ \o q]]
    /\ good' = [good EXCEPT ![Target(t)] = @ \/ loc[t].res.kind = "val"]
    /\ fed' = IF Target(t) = "pir" /\ budget >= 0
              THEN Append(fed, Sample(loc[t].res)) ELSE fed
    /\ lock' = [lock EXCEPT ![LockOf(Target(t))] = "free"]
    /\ UpdateReturns(t)
    /\ UNCHANGED <<SIMULATION_MODE, now, budget>>

\* update_reading: the body of `with self.lock:`, and the release
Commit(t) ==
    /\ loc[t].pc = "locked"
    /\ sensors' = [sensors EXCEPT ![Target(t)] =
                        commit(Target(t), @, loc[t].res, loc[t].ct, now)]
    /\ good' = [good EXCEPT ![Target(t)] = @ \/ loc[t].res.kind = "val"]
    /\ fed' = IF Target(t) = "pir" /\ budget >= 0
              THEN Append(fed, Sample(loc[t].res)) ELSE fed
    /\ lock' = [lock EXCEPT ![LockOf(Target(t))] = "free"]
    /\ UpdateReturns(t)
    /\ UNCHANGED <<SIMULATION_MODE, now, budget>>

\* an unexpected exception (none the pin driver raises: those are absorbed by
\* the measurement) leaves update_reading before it changed anything
Fault(t) ==
    /\ loc[t].pc = "call"
    /\ Affordable
    /\ budget' = Spent
    /\ UpdateRaises(t)
    /\ UNCHANGED <<SIMULATION_MODE, now, sensors, lock, fed, good>>

\* a plausible bug: no membership test, so that an unknown id fails inside
\* the handler's try (KeyError) and is answered with 500
Request_unchecked(op, id) ==
    /\ loc["http"].pc = "idle"
    /\ Affordable
    /\ budget' = Spent
    /\ IF op \in {"get_one", "live"} /\ id \notin SensorSet
       THEN /\ response' = ServerError
            /\ UNCHANGED loc
       ELSE /\ loc' = [loc EXCEPT !["http"] =
                        [Idle EXCEPT !.op = op,
                                     !.pc = CASE op = "live" -> "call"
                                              [] op = "alerts" -> "alerts"
                                              [] OTHER -> "get",
                                     !.i = IF op \in {"get_one", "live"}
                                           THEN Index(id) ELSE 1]]
            /\ response' = NoResponse
    /\ UNCHANGED <<SIMULATION_MODE, now, sensors, lock, fed, good>>

\* a request arrives: GET /sensors, /sensors/alerts, /sensors/{id},
\* /sensors/{id}/live
Request(op, id) ==
    /\ loc["http"].pc = "idle"
    /\ Affordable
    /\ budget' = Spent
    /\ IF op \in {"get_one", "live"} /\ id \notin SensorSet
       THEN /\ response' = NotFound
            /\ UNCHANGED loc
       ELSE /\ loc' = [loc EXCEPT !["http"] =
                        [Idle EXCEPT !.op = op,
                                     !.pc = CASE op = "live" -> "call"
                                              [] op = "alerts" -> "alerts"
                                              [] OTHER -> "get",
                                     !.i = IF op \in {"get_one", "live"}
                                           THEN Index(id) ELSE 1]]
            /\ response' = NoResponse
    /\ UNCHANGED <<SIMULATION_MODE, now, sensors, lock, fed, good>>

\* get_reading: `with self.lock:` entered
GetAcquire(t) ==
    /\ loc[t].pc = "get"
    /\ lock[LockOf(Target(t))] = "free"
    /\ lock' = [lock EXCEPT ![LockOf(Target(t))] = t]
    /\ loc' = [loc EXCEPT ![t] = [@ EXCEPT !.pc = "getting"]]
    /\ UNCHANGED <<SIMULATION_MODE, now, sensors, response, budget, fed, good>>

\* get_reading: the reading is built and the lock released; get_all_sensors
\* goes on to the next sensor, the other handlers answer
GetReturn(t) ==
    /\ loc[t].pc = "getting"
    /\ lock' = [lock EXCEPT ![LockOf(Target(t))] = "free"]
    /\ LET r == get_reading(Target(t), sensors[Target(t)], now) IN
       IF loc[t].op = "get_all" /\ loc[t].i < Len(SensorTypes)
       THEN /\ loc' = [loc EXCEPT ![t] = [@ EXCEPT !.pc = "get", !.i = @ + 1,
                                                   !.acc = Append(@, r)]]
            /\ UNCHANGED response
       ELSE /\ loc' = [loc EXCEPT ![t] = Idle]
            /\ response' = Ok(Append(loc[t].acc, r))
    /\ UNCHANGED <<SIMULATION_MODE, now, sensors, budget, fed, good>>

\* get_sensor_alerts: `with sensor.lock:` entered
AlertsAcquire(t) ==
    /\ loc[t].pc = "alerts"
    /\ lock[LockOf(Target(t))] = "free"
    /\ lock' = [lock EXCEPT ![LockOf(Target(t))] = t]
    /\ loc' = [loc EXCEPT ![t] = [@ EXCEPT !.pc = "listing"]]
    /\ UNCHANGED <<SIMULATION_MODE, now, sensors, response, budget, fed, good>>

\* a plausible bug: the listing removes from the log the alerts it reports
AlertsReturn_draining(t) ==
    /\ loc[t].pc = "listing"
    /\ lock' = [lock EXCEPT ![LockOf(Target(t))] = "free"]
    /\ sensors' = [sensors EXCEPT ![Target(t)].alerts = <<>>]
    /\ LET all_alerts == loc[t].acc \o LastAlerts(sensors[Target(t)].alerts) IN
       IF loc[t].i < Len(SensorTypes)
       THEN /\ loc' = [loc EXCEPT ![t] = [@ EXCEPT !.pc = "alerts", !.i = @ + 1,
                                                   !.acc = all_alerts]]
            /\ UNCHANGED response
       ELSE /\ loc' = [loc EXCEPT ![t] = Idle]
            /\ response' = Ok(SortByDateDesc(all_alerts))
    /\ UNCHANGED <<SIMULATION_MODE, now, budget, fed, good>>

\* a plausible bug: the listing keeps each sensor's lock while it goes on to
\* the next sensor
AlertsReturn_holding(t) ==
    /\ loc[t].pc = "listing"
    /\ LET all_alerts == loc[t].acc \o LastAlerts(sensors[Target(t)].alerts) IN
       IF loc[t].i < Len(SensorTypes)
       THEN /\ loc' = [loc EXCEPT ![t] = [@ EXCEPT !.pc = "alerts", !.i = @ + 1,
                                                   !.acc = all_alerts]]
            /\ UNCHANGED response
       ELSE /\ loc' = [loc EXCEPT ![t] = Idle]
            /\ response' = Ok(SortByDateDesc(all_alerts))
    /\ UNCHANGED <<SIMULATION_MODE, now, sensors, lock, budget, fed, good>>

\* get_sensor_alerts: all_alerts.extend(sensor.alerts[-10:]) and the release;
\* after the last sensor the sort and the answer
AlertsReturn(t) ==
    /\ loc[t].pc = "listing"
    /\ lock' = [lock EXCEPT ![LockOf(Target(t))] = "free"]
    /\ LET all_alerts == loc[t].acc \o LastAlerts(sensors[Target(t)].alerts) IN
       IF loc[t].i < Len(SensorTypes)
       THEN /\ loc' = [loc EXCEPT ![t] = [@ EXCEPT !.pc = "alerts", !.i = @ + 1,
                                                   !.acc = all_alerts]]
            /\ UNCHANGED response
       ELSE /\ loc' = [loc EXCEPT ![t] = Idle]
            /\ response' = Ok(SortByDateDesc(all_alerts))
    /\ UNCHANGED <<SIMULATION_MODE, now, sensors, budget, fed, good>>

ScanOps == {"get_all", "alerts"}      \* over every sensor
SensorOps == {"get_one", "live"}      \* on the sensor the URL names
Ids == SensorSet \cup {"nosuch"}

Next ==
    \/ Tick
    \/ Quiet
    \/ PollerRound
    \/ PollerRetry
    \/ \E t \in Threads : Measure(t)
    \/ \E t \in Threads : Skip(t)
    \/ \E t \in Threads : Acquire(t)
    \/ \E t \in Threads : Commit(t)
    \/ \E t \in Threads : Fault(t)
    \/ \E op \in ScanOps : Request(op, "")
    \/ \E op \in SensorOps, id \in Ids : Request(op, id)
    \/ GetAcquire("http")
    \/ GetReturn("http")
    \/ AlertsAcquire("http")
    \/ AlertsReturn("http")

Spec == Init /\ [][Next]_vars

-----------------------------------------------------------------------------
(* The poller alone: no request arrives *)

InitPoller ==
    /\ SIMULATION_MODE \in BOOLEAN
    /\ now = 0
    /\ sensors = [s \in SensorSet |-> InitSensor(s)]
    /\ lock = [s \in SensorSet |-> "free"]
    /\ loc = [t \in Threads |->
                IF t = "poller" THEN [Idle EXCEPT !.pc = "wait", !.op = "poll"] ELSE Idle]
    /\ response = NoResponse
    /\ budget = MaxPollerEvents
    /\ fed = <<>>
    /\ good = [s \in SensorSet |-> FALSE]

NextPoller ==
    \/ Tick
    \/ Quiet
    \/ PollerRound
    \/ PollerRetry
    \/ Measure("poller")
    \/ Skip("poller")
    \/ Acquire("poller")
    \/ Commit("poller")
    \/ Fault("poller")

SpecPoller == InitPoller /\ [][NextPoller]_vars

-----------------------------------------------------------------------------
(* Forced refreshes of the motion sensor while time passes: GET
   /sensors/pir/live now and then, the poller not scheduled *)

InitQuiet ==
    /\ SIMULATION_MODE = FALSE
    /\ now = 0
    /\ sensors = [s \in SensorSet |-> InitSensor(s)]
    /\ lock = [s \in SensorSet |-> "free"]
    /\ loc = [t \in Threads |->
                IF t = "poller" THEN [Idle EXCEPT !.pc = "wait", !.op = "poll"] ELSE Idle]
    /\ response = NoResponse
    /\ budget = MaxQuietEvents
    /\ fed = <<>>
    /\ good = [s \in SensorSet |-> FALSE]

NextQuiet ==
    \/ Tick
    \/ Quiet
    \/ Request("live", "pir")
    \/ Measure("http")
    \/ Acquire("http")
    \/ Commit("http")
    \/ GetAcquire("http")
    \/ GetReturn("http")

SpecQuiet == InitQuiet /\ [][NextQuiet]_vars

-----------------------------------------------------------------------------
(* The poller and forced refreshes, GET /sensors/{sensor_type}/live, updating
   the sensors concurrently while the clock advances *)

InitRace ==
    /\ SIMULATION_MODE = FALSE
    /\ now = 0
    /\ sensors = [s \in SensorSet |-> InitSensor(s)]
    /\ lock = [s \in SensorSet |-> "free"]
    /\ loc = [t \in Threads |->
                IF t = "poller" THEN [Idle EXCEPT !.pc = "wait", !.op = "poll"] ELSE Idle]
    /\ response = NoResponse
    /\ budget = MaxRaceEvents
    /\ fed = <<>>
    /\ good = [s \in SensorSet |-> FALSE]

NextRace ==
    \/ Tick
    \/ PollerRound
    \/ \E t \in Threads : Measure(t)
    \/ \E t \in Threads : Skip(t)
    \/ \E t \in Threads : Acquire(t)
    \/ \E t \in Threads : Commit(t)
    \/ \E s \in SensorSet : Request("live", s)
    \/ GetAcquire("http")
    \/ GetReturn("http")

SpecRace == InitRace /\ [][NextRace]_vars

-----------------------------------------------------------------------------
(* Forced refreshes of the motion sensor alone: GET /sensors/pir/live, again
   and again, while the poller is not scheduled and the clock stands still *)

InitMotion ==
    /\ SIMULATION_MODE \in BOOLEAN
    /\ now = 0
    /\ sensors = [s \in SensorSet |-> InitSensor(s)]
    /\ lock = [s \in SensorSet |-> "free"]
    /\ loc = [t \in Threads |->
                IF t = "poller" THEN [Idle EXCEPT !.pc = "wait", !.op = "poll"] ELSE Idle]
    /\ response = NoResponse
    /\ budget = 2 * MaxMotionSamples     \* a request and a commit for each sample
    /\ fed = <<>>
    /\ good = [s \in SensorSet |-> FALSE]

NextMotion ==
    \/ Request("live", "pir")
    \/ Measure("http")
    \/ Acquire("http")
    \/ Commit("http")
    \/ GetAcquire("http")
    \/ GetReturn("http")

SpecMotion == InitMotion /\ [][NextMotion]_vars

-----------------------------------------------------------------------------
(* The server running for ever on a machine without GPIO hardware: rounds,
   requests and unexpected exceptions without bound, the clock standing
   still.  Every step of a thread is taken once it can be (time.sleep
   returns, straight-line code runs on, a lock that is released again and
   again is eventually obtained); nothing obliges a request to arrive or an
   exception to be raised. *)

InitLive ==
    /\ SIMULATION_MODE = TRUE
    /\ now = 0
    /\ sensors = [s \in SensorSet |-> InitSensor(s)]
    /\ lock = [s \in SensorSet |-> "free"]
    /\ loc = [t \in Threads |->
                IF t = "poller" THEN [Idle EXCEPT !.pc = "wait", !.op = "poll"] ELSE Idle]
    /\ response = NoResponse
    /\ budget = -1
    /\ fed = <<>>
    /\ good = [s \in SensorSet |-> FALSE]

NextLive ==
    \/ PollerRound
    \/ PollerRetry
    \/ \E t \in Threads : Measure(t)
    \/ \E t \in Threads : Skip(t)
    \/ \E t \in Threads : Acquire(t)
    \/ \E t \in Threads : Commit(t)
    \/ \E t \in Threads : Fault(t)
    \/ \E op \in ScanOps : Request(op, "")
    \/ \E op \in SensorOps, id \in Ids : Request(op, id)
    \/ GetAcquire("http")
    \/ GetReturn("http")
    \/ AlertsAcquire("http")
    \/ AlertsReturn("http")

FairScheduling ==
    /\ WF_vars(PollerRound)
    /\ WF_vars(PollerRetry)
    /\ \A t \in Threads :
        /\ WF_vars(Measure(t))
        /\ WF_vars(Skip(t))
        /\ SF_vars(Acquire(t))
        /\ WF_vars(Commit(t))
    /\ SF_vars(GetAcquire("http"))
    /\ WF_vars(GetReturn("http"))
    /\ SF_vars(AlertsAcquire("http"))
    /\ WF_vars(AlertsReturn("http"))

SpecLive == InitLive /\ [][NextLive]_vars /\ FairScheduling

-----------------------------------------------------------------------------
(* Listing the alerts of a server that has been running: the distance and
   the temperature sensor have each committed a number of samples that
   raised an alert (the distance sensor every tick, the temperature sensor
   every second tick), then GET /sensors/alerts arrives while the poller
   goes on *)

\* a sample of sensor s that raises one alert when committed
AlertingSample(s) ==
    IF s = "ultrasonic"
    THEN measure_distance(FALSE, [echo |-> "pulse", us |-> 300])
    ELSE read_temp_humidity(FALSE, [dht |-> "val", humidity |-> 500, temperature |-> 360])

\* sensor s after n updates that committed AlertingSample(s), `every` ticks apart
RECURSIVE Earlier(_, _, _)
Earlier(s, n, every) ==
    IF n = 0 THEN InitSensor(s)
    ELSE commit(s, Earlier(s, n - 1, every), AlertingSample(s), n * every, n * every)

LogLengths == {0, 1, RecentAlerts, RecentAlerts + 1, MaxLog}

InitAlerts ==
    /\ SIMULATION_MODE = FALSE
    /\ now = 2 * MaxLog
    /\ \E nu \in LogLengths, nd \in LogLengths :
          /\ sensors = [s \in SensorSet |->
                            CASE s = "ultrasonic" -> Earlier(s, nu, 1)
                              [] s = "dht11" -> Earlier(s, nd, 2)
                              [] OTHER -> InitSensor(s)]
          /\ good = [s \in SensorSet |->
                            \/ s = "ultrasonic" /\ nu > 0
                            \/ s = "dht11" /\ nd > 0]
    /\ lock = [s \in SensorSet |-> "free"]
    /\ loc = [t \in Threads |->
                IF t = "poller" THEN [Idle EXCEPT !.pc = "wait", !.op = "poll"] ELSE Idle]
    /\ response = NoResponse
    /\ budget = MaxAlertsEvents
    /\ fed = <<>>

NextAlerts ==
    \/ Tick
    \/ PollerRound
    \/ Measure("poller")
    \/ Skip("poller")
    \/ Acquire("poller")
    \/ Commit("poller")
    \/ Request("alerts", "")
    \/ AlertsAcquire("http")
    \/ AlertsReturn("http")

SpecAlerts == InitAlerts /\ [][NextAlerts]_vars

-----------------------------------------------------------------------------
(* The blocking loops inside one measurement, which Measure takes as one
   step: the two echo waits of measure_distance and the RC count loops of
   read_air_quality and read_light_level.  The measuring thread's position
   holds the loop's local variables: count, the time ct (ms) elapsed since
   the loop's start time was taken, and pin, the level GPIO.input returns.
   The pin changes level when it likes, or never. *)

Loops == {"echo_start", "echo_end", "rc_count"}

Measurements == {"measure_distance", "read_air_quality", "read_light_level"}

CountCap(op) == IF op = "read_air_quality" THEN MQ135CountCap ELSE LDRCountCap

TimeCapMs(op) == IF op = "read_air_quality" THEN MQ135TimeCapMs ELSE LDRTimeCapMs

\* the measurement returns r to update_reading
Returned(t, r) ==
    loc' = [loc EXCEPT ![t] = [@ EXCEPT !.pc = "returned", !.res = r]]

InitLoops ==
    /\ SIMULATION_MODE = FALSE
    /\ now = 0
    /\ sensors = [s \in SensorSet |-> InitSensor(s)]
    /\ lock = [s \in SensorSet |-> "free"]
    /\ \E op \in Measurements, level \in {0, 1} :
          loc = [t \in Threads |->
                    IF t = "poller"
                    THEN [pc |-> IF op = "measure_distance" THEN "echo_start" ELSE "rc_count",
                          op |-> op, count |-> 0, ct |-> 0, pin |-> level, res |-> None]
                    ELSE Idle]
    /\ response = NoResponse
    /\ budget = 0
    /\ fed = <<>>
    /\ good = [s \in SensorSet |-> FALSE]

\* a plausible bug: the wait for the echo to start without its timeout
EchoStartWait_unbounded(t) ==
    /\ loc[t].pc = "echo_start"
    /\ loc[t].pin = 1
    /\ loc' = [loc EXCEPT ![t] = [@ EXCEPT !.pc = "echo_end", !.ct = 0]]
    /\ UNCHANGED <<SIMULATION_MODE, now, sensors, lock, response, budget, fed, good>>

\* `while GPIO.input(echo_pin) == 0:` with its 100 ms timeout; when the pin
\* is high, timeout_end = time.time() and the second wait begins
EchoStartWait(t) ==
    /\ loc[t].pc = "echo_start"
    /\ IF loc[t].pin = 0
       THEN /\ loc[t].ct > EchoTimeoutMs
            /\ Returned(t, None)
       ELSE loc' = [loc EXCEPT ![t] = [@ EXCEPT !.pc = "echo_end", !.ct = 0]]
    /\ UNCHANGED <<SIMULATION_MODE, now, sensors, lock, response, budget, fed, good>>

\* `while GPIO.input(echo_pin) == 1:` with its 100 ms timeout; when the pin
\* is low the distance is computed from the two times (or, a time being
\* unbound because a loop body never ran, the NameError is absorbed)
EchoEndWait(t) ==
    /\ loc[t].pc = "echo_end"
    /\ IF loc[t].pin = 1
       THEN /\ loc[t].ct > EchoTimeoutMs
            /\ Returned(t, None)
       ELSE \E in \in UltrasonicInputs :
                /\ in.echo \in {"pulse", "already_high", "fell_early"}
                /\ Returned(t, measure_distance(FALSE, in))
    /\ UNCHANGED <<SIMULATION_MODE, now, sensors, lock, response, budget, fed, good>>

\* `while GPIO.input(pin) == GPIO.LOW: count += 1; if count > cap or
\* time.time() - start_time > seconds: break`, LoopStride iterations at once
RcCount(t) ==
    /\ loc[t].pc = "rc_count"
    /\ IF loc[t].pin = 0
       THEN LET count == Min(loc[t].count + LoopStride, CountCap(loc[t].op) + 1) IN
            loc' = [loc EXCEPT ![t] =
                        [@ EXCEPT !.count = count,
                                  !.pc = IF \/ count > CountCap(loc[t].op)
                                            \/ loc[t].ct > TimeCapMs(loc[t].op)
                                         THEN "rc_done" ELSE "rc_count"]]
       ELSE loc' = [loc EXCEPT ![t] = [@ EXCEPT !.pc = "rc_done"]]
    /\ UNCHANGED <<SIMULATION_MODE, now, sensors, lock, response, budget, fed, good>>

\* the count is converted and the measurement returns
RcReturn(t) ==
    /\ loc[t].pc = "rc_done"
    /\ IF loc[t].op = "read_air_quality"
       THEN \E digital \in {0, 1} :
                Returned(t, read_air_quality(FALSE, [gpio |-> "ok", digital |-> digital,
                                                    count |-> loc[t].count]))
       ELSE Returned(t, read_light_level(FALSE, [gpio |-> "ok", count |-> loc[t].count]))
    /\ UNCHANGED <<SIMULATION_MODE, now, sensors, lock, response, budget, fed, good>>

\* time.time() has advanced when the loop looks at it again
LoopClock(t) ==
    /\ loc[t].pc \in Loops
    /\ loc[t].ct <= LDRTimeCapMs
    /\ loc' = [loc EXCEPT ![t] = [@ EXCEPT !.ct = @ + LoopTickMs]]
    /\ UNCHANGED <<SIMULATION_MODE, now, sensors, lock, response, budget, fed, good>>

\* the pin changes level
PinChanges(t) ==
    /\ loc[t].pc \in Loops
    /\ loc' = [loc EXCEPT ![t] = [@ EXCEPT !.pin = 1 - @]]
    /\ UNCHANGED <<SIMULATION_MODE, now, sensors, lock, response, budget, fed, good>>

\* a GPIO call raises: the measurement's except clause returns None
GpioFails(t) ==
    /\ loc[t].pc \in Loops
    /\ Returned(t, Absorb(Raise))
    /\ UNCHANGED <<SIMULATION_MODE, now, sensors, lock, response, budget, fed, good>>

NextLoops ==
    \/ EchoStartWait("poller")
    \/ EchoEndWait("poller")
    \/ RcCount("poller")
    \/ RcReturn("poller")
    \/ LoopClock("poller")
    \/ PinChanges("poller")
    \/ GpioFails("poller")

\* the thread keeps running and the clock keeps advancing; nothing obliges
\* the pin to change or a GPIO call to fail
LoopsRun ==
    /\ WF_vars(EchoStartWait("poller"))
    /\ WF_vars(EchoEndWait("poller"))
    /\ WF_vars(RcCount("poller"))
    /\ WF_vars(RcReturn("poller"))
    /\ WF_vars(LoopClock("poller"))

SpecLoops == InitLoops /\ [][NextLoops]_vars /\ LoopsRun

-----------------------------------------------------------------------------
(* Claims *)

\* a sensor's stored fields except its alert log
Values(self) == [f \in DOMAIN self \ {"alerts"} |-> self[f]]

\* thread t takes a step of update_reading
UpdateStep(t) ==
    /\ loc[t].pc \in {"call", "measured", "locked"}
    /\ loc'[t] # loc[t]
    /\ Measure(t) \/ Skip(t) \/ Acquire(t) \/ Commit(t)

\* thread t takes a step of an update_reading whose measurement failed
FailedUpdateStep(t) ==
    /\ loc[t].pc \in {"measured", "locked"}
    /\ loc[t].res.kind # "val"
    /\ UpdateStep(t)

\* C1: for every sensor, get_reading reports 'active' exactly when an update
\* has committed a successful sample, 'no_reading' otherwise.
C1_ActiveIffGoodSample ==
    \A s \in SensorSet :
        get_reading(s, sensors[s], now).status = "active" <=> good[s]

\* C2: an update_reading whose measurement fails leaves the sensor's value
\* fields and last_reading_time as they were.
C2_FailedSampleKeepsValues ==
    [][\A t \in Threads :
        LET s == Target(t) IN
        FailedUpdateStep(t) => Values(sensors'[s]) = Values(sensors[s])]_vars

\* C3: an update_reading whose measurement fails appends no alert and changes
\* no counter (motion_count, last_motion_time).
C3_FailedSampleAppendsNothing ==
    [][\A t \in Threads :
        LET s == Target(t) IN
        FailedUpdateStep(t) =>
            /\ sensors'[s].alerts = sensors[s].alerts
            /\ s = "pir" =>
                /\ sensors'[s].motion_count = sensors[s].motion_count
                /\ sensors'[s].last_motion_time = sensors[s].last_motion_time]_vars

\* C4: without GPIO hardware every sensor keeps status 'no_reading', its
\* initial values and an empty alert log.
C4_SimulationReportsNothing ==
    SIMULATION_MODE =>
        \A s \in SensorSet :
            /\ get_reading(s, sensors[s], now).status = "no_reading"
            /\ sensors[s] = InitSensor(s)

\* thread t is inside update_reading
Updating(t) == loc[t].pc \in {"call", "measured", "locked"}

\* C5: while a thread updates sensor A, a get_reading of another sensor B
\* finds B's lock free, so it runs to completion without waiting.
C5_UpdateDoesNotBlockOtherRead ==
    \A t, u \in Threads :
        (/\ t # u
         /\ Updating(t)
         /\ loc[u].pc = "get"
         /\ Target(u) # Target(t))
        => /\ lock[LockOf(Target(u))] = "free"
           /\ ENABLED GetAcquire(u)

\* the poller is inside the lock of one sensor while a get_reading of
\* another sensor is inside its own
C5_Witness ==
    /\ loc["poller"].pc = "locked"
    /\ loc["http"].pc = "getting"
    /\ Target("http") # Target("poller")
    /\ lock[LockOf(Target("poller"))] = "poller"
    /\ lock[LockOf(Target("http"))] = "http"

\* the alerts a step appends to the log of sensor s
Appended(s) ==
    SubSeq(sensors'[s].alerts, Len(sensors[s].alerts) + 1, Len(sensors'[s].alerts))

\* how many alerts of q carry failure class c
Count(q, c) == Cardinality({i \in 1..Len(q) : q[i].Failure_Class = c})

\* the false -> true transitions of a sequence of motion samples that starts
\* from 'no motion'
Rises(q) ==
    Cardinality({i \in 1..Len(q) : q[i] = "true" /\ (i = 1 \/ q[i - 1] # "true")})

\* C6: motion_count goes up by exactly one, with one 'Motion Detected' alert,
\* at each sample that reads true while the committed motion state was false,
\* and never otherwise; so it equals the number of false -> true transitions
\* fed so far, which is 2 for false, false, true, true, false, true.
C6_MotionEdgeTriggered ==
    [][\A t \in Threads :
        (loc[t].pc = "locked" /\ Target(t) = "pir" /\ Commit(t)) =>
            LET rise == Truthy(loc[t].res) /\ ~sensors["pir"].motion_detected IN
            /\ sensors'["pir"].motion_count =
                    sensors["pir"].motion_count + (IF rise THEN 1 ELSE 0)
            /\ Count(Appended("pir"), "Motion_Detected") = (IF rise THEN 1 ELSE 0)
            /\ sensors'["pir"].motion_count = Rises(fed')
            /\ fed' = <<"false", "false", "true", "true", "false", "true">>
                    => sensors'["pir"].motion_count = 2]_vars

\* the sequence false, false, true, true, false, true has been committed
C6_Witness ==
    /\ fed = <<"false", "false", "true", "true", "false", "true">>
    /\ sensors["pir"].motion_count = 2
    /\ Count(sensors["pir"].alerts, "Motion_Detected") = 2

\* C7: every successful temperature/humidity sample appends one
\* high-temperature alert iff the temperature is above temp_high_threshold,
\* one low-temperature alert iff it is below temp_low_threshold, at most one
\* of the two; a sample of 36.0 C appends one high and no low alert.
C7_TemperatureAlert ==
    [][\A t \in Threads :
        (loc[t].pc = "locked" /\ Target(t) = "dht11" /\ Commit(t)) =>
            LET temperature == loc[t].res.temperature
                high == Count(Appended("dht11"), "Temperature_High")
                low == Count(Appended("dht11"), "Temperature_Low")
            IN  /\ high = (IF temperature > temp_high_threshold * 10 THEN 1 ELSE 0)
                /\ low = (IF temperature < temp_low_threshold * 10 THEN 1 ELSE 0)
                /\ high + low <= 1
                /\ temperature = 360 => high = 1 /\ low = 0]_vars

\* a sample of 36.0 C has been committed, with its one high-temperature alert
C7_Witness ==
    /\ sensors["dht11"].temperature = 360
    /\ Count(sensors["dht11"].alerts, "Temperature_High") = 1
    /\ Count(sensors["dht11"].alerts, "Temperature_Low") = 0

\* C8: two get_reading calls on a sensor with no update committed between
\* them return the same reading, whatever time elapses between them.
C8_SnapshotIdempotent ==
    [][sensors' = sensors =>
        \A s \in SensorSet :
            get_reading(s, sensors'[s], now') = get_reading(s, sensors[s], now)]_vars

\* thread t's update_reading ends with an exception reaching its caller
RaisedTo(t) ==
    IF t = "poller" THEN loc'[t].pc = "backoff" ELSE response' = ServerError

\* C9: whatever the pin driver does, no step of update_reading (measurement,
\* lock, commit) ends with an exception reaching the caller.
C9_UpdateNeverRaises ==
    [][\A t \in Threads :
        UpdateStep(t) =>
            /\ ~RaisedTo(t)
            /\ loc'[t].pc \in {"call", "measured", "locked", "get", "wait"}]_vars

\* with hardware present, a measurement that can only fail by a GPIO call
\* raising has returned None to update_reading
C9_Witness ==
    /\ ~SIMULATION_MODE
    /\ \E t \in Threads :
        /\ loc[t].pc = "measured"
        /\ Target(t) \in {"mq135", "pir"}
        /\ loc[t].res = None

\* C10: in a poller round update is called on every sensor in enumeration
\* order, and an exception raised while updating one sensor does not keep
\* the rest of the round from being updated: from the update of sensor i the
\* poller goes on to the update of sensor i + 1.
C10_RoundUpdatesEverySensor ==
    [][(Updating("poller") /\ loc'["poller"] # loc["poller"]) =>
        IF loc["poller"].i < Len(SensorTypes)
        THEN /\ Updating("poller")'
             /\ loc'["poller"].i \in {loc["poller"].i, loc["poller"].i + 1}
        ELSE \/ Updating("poller")' /\ loc'["poller"].i = loc["poller"].i
             \/ loc'["poller"].pc = "wait"]_vars

\* the poller is inside update_reading of sensor s
InUpdate(s) ==
    /\ loc["poller"].pc \in {"measured", "locked"}
    /\ Target("poller") = s

\* the poller starts a round
RoundStarts == loc["poller"].pc = "call" /\ loc["poller"].i = 1

\* the poller loop never terminates: it starts a round again and again
PollerNeverTerminates == []<>RoundStarts

\* C11: the poller loop never terminates, after a completed round and after
\* one that raised alike, and so under fair scheduling update_reading of
\* every registered sensor is invoked again and again.
C11_EverySensorUpdatedForever ==
    /\ []<>RoundStarts
    /\ \A s \in SensorSet : []<>InUpdate(s)

\* a distance (hundredths of a cm) inside the valid range of the HC-SR04
InRange(distance) == MinRange * 100 <= distance /\ distance <= MaxRange * 100

\* C12: echo ranging returns no reading or a distance in [2, 400] cm; a pulse
\* whose computed distance is outside the range gives no reading (it is not
\* clamped), so the stored distance of a sensor that has a reading is in range.
C12_DistanceInRange ==
    /\ \A in \in UltrasonicInputs :
            LET r == measure_distance(FALSE, in) IN
            IF in.echo = "pulse" /\ InRange(RoundDiv(in.us * SpeedOfSound, 20000))
            THEN r = [kind |-> "val", distance |-> RoundDiv(in.us * SpeedOfSound, 20000)]
            ELSE r = None
    /\ \A t \in Threads :
            (loc[t].pc \in {"measured", "locked"} /\ Target(t) = "ultrasonic")
            => (loc[t].res = None \/ InRange(loc[t].res.distance))
    /\ sensors["ultrasonic"].last_reading_time # NoTime
            => InRange(sensors["ultrasonic"].distance)

\* a distance of 343 cm is stored, and a later measurement gave no reading
C12_Witness ==
    /\ sensors["ultrasonic"].distance = 34300
    /\ loc["poller"].pc = "measured"
    /\ Target("poller") = "ultrasonic"
    /\ loc["poller"].res = None
    /\ \E in \in UltrasonicInputs :
            /\ in.echo = "pulse"
            /\ ~InRange(RoundDiv(in.us * SpeedOfSound, 20000))
            /\ measure_distance(SIMULATION_MODE, in) = None

\* the `most` most recently appended alerts of a log, oldest first
Newest(log, most) ==
    [k \in 1..Min(most, Len(log)) |-> log[Len(log) - Min(most, Len(log)) + k]]

\* how many times alert a occurs in the list q
Occurrences(q, a) == Cardinality({k \in 1..Len(q) : q[k] = a})

\* the lists p and q hold the same alerts, each the same number of times
SameAlerts(p, q) ==
    /\ Len(p) = Len(q)
    /\ \A k \in 1..Len(p) : Occurrences(p, p[k]) = Occurrences(q, p[k])

\* the list q is ordered by generation time, newest first
NewestFirst(q) == \A j, k \in 1..Len(q) : j < k => q[j].Date >= q[k].Date

\* C13: recent_alerts takes from each sensor that sensor's ten most recently
\* appended alerts (all of them when it has fewer), and answers with the
\* alerts taken from all sensors, ordered by generation time descending.
C13_RecentAlerts ==
    [][(loc["http"].pc = "listing" /\ AlertsReturn("http")) =>
        LET taken == loc["http"].acc
                        \o Newest(sensors[Target("http")].alerts, RecentAlerts) IN
        IF loc["http"].i < Len(SensorTypes)
        THEN loc'["http"].acc = taken
        ELSE /\ response'.status = 200
             /\ SameAlerts(response'.data, taken)
             /\ NewestFirst(response'.data)
             /\ \A s \in SensorSet :
                    Cardinality({k \in 1..Len(response'.data) :
                                    response'.data[k].anchor = asset_id(s)})
                        <= RecentAlerts]_vars

\* the listing answered with alerts of two sensors, one of which has more
\* than ten in its log
C13_Witness ==
    /\ loc["http"].pc = "idle"
    /\ response.status = 200
    /\ Len(sensors["ultrasonic"].alerts) > RecentAlerts
    /\ Len(response.data) > RecentAlerts
    /\ \E j, k \in 1..Len(response.data) :
            /\ response.data[j].anchor = asset_id("ultrasonic")
            /\ response.data[k].anchor = asset_id("dht11")

\* the HTTP side takes a step: a request arrives or its handler moves on
HttpStep == loc'["http"] # loc["http"] \/ response' # response

\* C14: get_all, get_one and recent_alerts change no sensor's state; a
\* refresh_and_get changes state only in the commit of its one update_reading,
\* and there only the sensor it names.
C14_QueriesReadOnly ==
    [][HttpStep =>
        IF loc["http"].op = "live" /\ loc["http"].pc = "locked"
        THEN /\ \A s \in SensorSet \ {Target("http")} : sensors'[s] = sensors[s]
             /\ loc'["http"].pc = "get"
        ELSE /\ sensors' = sensors
             /\ loc["http"].pc \in {"get", "getting"}
                    => loc'["http"].pc \in {"get", "getting", "idle"}]_vars

\* get_all answered with the reading of a sensor that has one while the
\* sensors are as the last update left them
C14_Witness ==
    /\ loc["http"].pc = "idle"
    /\ response.status = 200
    /\ Len(response.data) = Len(SensorTypes)
    /\ \E k \in 1..Len(SensorTypes) :
            /\ good[SensorTypes[k]]
            /\ response.data[k] = get_reading(SensorTypes[k], sensors[SensorTypes[k]], now)

\* C15: get_one and refresh_and_get with an identifier that names no
\* registered sensor answer 'not found'; the handler measures nothing, takes
\* no lock and leaves every sensor as it was.
C15_UnknownSensorNotFound ==
    [][\A op \in SensorOps : \A id \in Ids \ SensorSet :
        (loc["http"].pc = "idle" /\ Request(op, id)) =>
            /\ response' = NotFound
            /\ loc'["http"] = Idle
            /\ sensors' = sensors
            /\ lock' = lock
            /\ good' = good]_vars

\* 'not found' was answered on a server whose sensors have readings
C15_Witness ==
    /\ response = NotFound
    /\ loc["http"] = Idle
    /\ \E s \in SensorSet : good[s] /\ Values(sensors[s]) # Values(InitSensor(s))

\* the list p is the beginning of the list q
IsPrefix(p, q) == Len(p) <= Len(q) /\ SubSeq(q, 1, Len(p)) = p

\* C16: every sensor's alert log is append-only: whatever step is taken
\* (poller, forced refresh, query), the log before it is a prefix of the log
\* after it.
C16_AlertLogAppendOnly ==
    [][\A s \in SensorSet : IsPrefix(sensors[s].alerts, sensors'[s].alerts)]_vars

\* a log two updates appended to, and a query answered since
C16_Witness ==
    /\ response.status = 200
    /\ \E s \in SensorSet : Len(sensors[s].alerts) >= 2

\* C17: no sensor goes back to Uninitialized: once last_reading_time is set
\* (get_reading reports 'active') it stays set, whatever updates follow.
C17_NeverBackToUninitialized ==
    [][\A s \in SensorSet :
        sensors[s].last_reading_time # NoTime
        => /\ sensors'[s].last_reading_time # NoTime
           /\ get_reading(s, sensors'[s], now').status = "active"]_vars

\* the motion sensor committed a motion, later a failed sample, and is active
C17_Witness ==
    /\ Len(fed) >= 2
    /\ fed[1] = "true"
    /\ fed[Len(fed)] = "none"
    /\ get_reading("pir", sensors["pir"], now).status = "active"

\* C18: every alert in a sensor's log carries that sensor's sensor_id (the
\* first part of its id) and asset_id (its anchor), so that alerts of two
\* different sensors differ in both.
C18_AlertNamesItsSensor ==
    /\ \A s \in SensorSet : \A k \in 1..Len(sensors[s].alerts) :
            /\ sensors[s].alerts[k].id[1] = sensor_id(s)
            /\ sensors[s].alerts[k].anchor = asset_id(s)
    /\ \A s, u \in SensorSet :
            s # u =>
                \A j \in 1..Len(sensors[s].alerts), k \in 1..Len(sensors[u].alerts) :
                    /\ sensors[s].alerts[j].id[1] # sensors[u].alerts[k].id[1]
                    /\ sensors[s].alerts[j].anchor # sensors[u].alerts[k].anchor

\* two different sensors have each appended an alert
C18_Witness ==
    \E s, u \in SensorSet :
        s # u /\ sensors[s].alerts # <<>> /\ sensors[u].alerts # <<>>

\* thread t is in update_reading and its measurement has not returned yet
Measuring(t) == loc[t].pc = "call"

\* C19: no sensor's lock is held while that sensor is measured: a lock is
\* held only over a commit, a snapshot or a listing copy, and while one
\* thread measures a sensor another thread's get_reading of the same sensor
\* can take the lock and complete.
C19_NoLockWhileMeasuring ==
    /\ \A s \in SensorSet :
            lock[s] # "free"
            => loc[lock[s]].pc \in {"locked", "getting", "listing"}
    /\ \A t \in Threads :
            (Measuring(t) \/ loc[t].pc = "measured") => lock[LockOf(Target(t))] # t
    /\ \A t, u \in Threads :
            (t # u /\ Measuring(t) /\ loc[u].pc = "get" /\ Target(u) = Target(t))
            => ENABLED GetAcquire(u)
    /\ \A u \in Threads : loc[u].pc = "getting" => ENABLED GetReturn(u)

\* a sensor with a reading is being measured by the poller while the
\* handler's get_reading of the same sensor holds the lock
C19_Witness ==
    /\ Measuring("poller")
    /\ loc["http"].pc = "getting"
    /\ Target("http") = Target("poller")
    /\ good[Target("poller")]
    /\ lock[LockOf(Target("poller"))] = "http"

\* thread t is inside a `with lock:` block of sensor s: the commit of an
\* update, a snapshot, or the copy of a listing
InCritical(t, s) ==
    /\ loc[t].pc \in {"locked", "getting", "listing"}
    /\ Target(t) = s

\* C20: within one sensor there is one writer at a time: the commit of an
\* update never overlaps another commit, a snapshot or a listing copy of the
\* same sensor; whoever is in such a section holds the sensor's lock.
C20_SingleWriter ==
    \A s \in SensorSet :
        /\ \A t, u \in Threads : (InCritical(t, s) /\ InCritical(u, s)) => t = u
        /\ \A t \in Threads : InCritical(t, s) <=> lock[LockOf(s)] = t

\* the poller is committing to a sensor while a forced refresh of the same
\* sensor has measured and waits for the lock
C20_Witness ==
    /\ loc["poller"].pc = "locked"
    /\ loc["http"].pc = "measured"
    /\ Target("http") = Target("poller")
    /\ Commits(Target("http"), loc["http"].res)
    /\ ~ENABLED Acquire("http")

\* C21: every blocking measurement loop ends whatever the pin does: the
\* echo waits once their 100 ms are exceeded (no reading), the RC count loops
\* once the count cap or the time cap is reached; the measurement returns.
C21_LoopsTerminate ==
    /\ <>(loc["poller"].pc = "returned")
    /\ [](loc["poller"].pc \in {"rc_count", "rc_done"}
            => loc["poller"].count <= CountCap(loc["poller"].op) + 1)
    /\ [](loc["poller"].pc = "echo_start"
            => loc["poller"].ct <= EchoTimeoutMs + LoopTickMs + LDRTimeCapMs)

\* the wait for the echo to start timed out: no reading
C21_Witness ==
    /\ loc["poller"].pc = "returned"
    /\ loc["poller"].op = "measure_distance"
    /\ loc["poller"].pin = 0
    /\ loc["poller"].ct > EchoTimeoutMs
    /\ loc["poller"].res = None

\* |a - b|
Distance(a, b) == IF a >= b THEN a - b ELSE b - a

\* the echo pulses of the input set
Pulses == {in \in UltrasonicInputs : in.echo = "pulse"}

\* C22: for an echo pulse of t_end - t_start = us microseconds the reported
\* distance is us * 34300 / 2 / 10^6 cm rounded to two decimals (within half
\* a hundredth of the exact value) whenever that is in range; 1 ms gives
\* 17.15 cm; the stored distance is the one reported for the pulse.
C22_DistanceFormula ==
    /\ \A in \in Pulses :
            LET r == measure_distance(FALSE, in) IN
            r # None =>
                /\ r.kind = "val"
                /\ 2 * Distance(r.distance * 20000, in.us * SpeedOfSound) <= 20000
    /\ measure_distance(FALSE, [echo |-> "pulse", us |-> 1000])
            = [kind |-> "val", distance |-> 1715]
    /\ sensors["ultrasonic"].last_reading_time # NoTime
            => \E in \in Pulses :
                    /\ measure_distance(FALSE, in) # None
                    /\ sensors["ultrasonic"].distance = measure_distance(FALSE, in).distance
                    /\ 2 * Distance(sensors["ultrasonic"].distance * 20000,
                                    in.us * SpeedOfSound) <= 20000

\* a pulse of 1 ms was measured and 17.15 cm stored
C22_Witness ==
    /\ sensors["ultrasonic"].last_reading_time # NoTime
    /\ sensors["ultrasonic"].distance = 1715
    /\ [echo |-> "pulse", us |-> 1000] \in UltrasonicInputs

\* discharge counts: those the modelled loop produces, those of the input
\* set, and the neighbours of the calibration counts
LightCounts ==
    {Min(k * LoopStride, LDRCountCap + 1) : k \in 0..((LDRCountCap \div LoopStride) + 1)}
    \cup {in.count : in \in LDRInputs}
    \cup {1, min_bright - 1, min_bright, min_bright + 1, min_bright + 49,
          min_bright + 50, min_bright + 51, max_dark - 51, max_dark - 50,
          max_dark - 49, max_dark - 1, max_dark, max_dark + 1}

\* the reading of read_light_level for a count
LightOf(c) == read_light_level(FALSE, [gpio |-> "ok", count |-> c])

\* rc_time ran to its end and read_light_level has returned
LightReturned ==
    /\ loc["poller"].pc = "returned"
    /\ loc["poller"].op = "read_light_level"
    /\ loc["poller"].res # None

\* C23: the count-to-percentage mapping is monotonic: of two counts
\* c1 < c2 that both give a reading, the percentage for c1 is never
\* strictly smaller than the percentage for c2; in particular the percentage
\* a measurement returned is ordered against that of every other count.
C23_PercentageMonotonic ==
    /\ \A c1, c2 \in LightCounts :
            (c1 < c2 /\ LightOf(c1) # None /\ LightOf(c2) # None)
                => LightOf(c1).percentage >= LightOf(c2).percentage
    /\ LightReturned =>
            \A c \in LightCounts :
                LightOf(c) # None =>
                    /\ c > loc["poller"].count
                            => loc["poller"].res.percentage >= LightOf(c).percentage
                    /\ c < loc["poller"].count
                            => loc["poller"].res.percentage <= LightOf(c).percentage

\* a measurement returned an interpolated percentage, strictly between
\* those of smaller and of larger counts
C23_Witness ==
    /\ LightReturned
    /\ loc["poller"].res.percentage > 0 /\ loc["poller"].res.percentage < 10000
    /\ \E c1, c2 \in LightCounts :
            /\ c1 < loc["poller"].count /\ loc["poller"].count < c2
            /\ LightOf(c1) # None /\ LightOf(c2) # None
            /\ LightOf(c1).percentage > loc["poller"].res.percentage
            /\ loc["poller"].res.percentage > LightOf(c2).percentage

\* C24: whatever count rc_time produced (0 up to the cap), the conversion
\* returns a percentage in [0, 100]: 0 at or above the dark count, 100 at or
\* below the bright count, the linear interpolation (to the hundredth) in
\* between; no count is dropped.
C24_EveryCountConverted ==
    [][(RcReturn("poller") /\ loc["poller"].op = "read_light_level") =>
        LET c == loc["poller"].count
            r == loc'["poller"].res
        IN  /\ r # None
            /\ r.kind = "val"
            /\ r.percentage >= 0 /\ r.percentage <= 10000
            /\ c >= max_dark => r.percentage = 0
            /\ c <= min_bright => r.percentage = 10000
            /\ (min_bright < c /\ c < max_dark)
                    => 2 * Distance(r.percentage * ((max_dark - min_bright) \div 1000),
                                    10 * (max_dark - c))
                            <= (max_dark - min_bright) \div 1000]_vars

\* the sensors whose alert rules are thresholds on the new value
ThresholdSensors == {"ultrasonic", "mq135", "dht11", "ldr"}

\* the failure classes whose rule the sample r of sensor s satisfies
Qualifying(s, r) ==
    CASE s = "ultrasonic" ->
            {c \in {"Proximity_Warning"} : r.distance < min_distance_threshold * 100}
            \cup {c \in {"Range_Warning"} : r.distance > max_distance_threshold * 100}
      [] s = "mq135" ->
            {c \in {"Air_Quality_Critical"} : r.ppm > danger_threshold * 100}
            \cup {c \in {"Air_Quality_Warning"} :
                        /\ r.ppm > warning_threshold * 100
                        /\ r.ppm <= danger_threshold * 100}
      [] s = "dht11" ->
            {c \in {"Temperature_High"} : r.temperature > temp_high_threshold * 10}
            \cup {c \in {"Temperature_Low"} : r.temperature < temp_low_threshold * 10}
            \cup {c \in {"Humidity_High"} : r.humidity > humidity_high_threshold * 10}
            \cup {c \in {"Humidity_Low"} : r.humidity < humidity_low_threshold * 10}
      [] s = "ldr" ->
            {c \in {"Light_Dark"} : r.percentage < dark_threshold * 100}
            \cup {c \in {"Light_Bright"} : r.percentage > bright_threshold * 100}
      [] OTHER -> {}

\* the failure classes of the alerts of q
Classes(q) == {q[i].Failure_Class : i \in 1..Len(q)}

\* C25: the threshold rules are level-triggered: a successful sample of the
\* distance, air-quality, temperature/humidity or light sensor appends exactly
\* one alert for every rule its new value satisfies and no other alert,
\* whatever the stored value was; a sample that satisfies no rule appends
\* none.
C25_LevelTriggered ==
    [][\A t \in Threads :
        (/\ loc[t].pc = "locked"
         /\ Target(t) \in ThresholdSensors
         /\ loc[t].res.kind = "val"
         /\ Commit(t)) =>
            LET s == Target(t)
                q == Appended(s)
            IN  /\ Len(sensors'[s].alerts) = Len(sensors[s].alerts) + Len(q)
                /\ Len(q) = Cardinality(Qualifying(s, loc[t].res))
                /\ Classes(q) = Qualifying(s, loc[t].res)]_vars

\* two consecutive samples of the same qualifying distance have appended
\* two proximity alerts
C25_Witness ==
    /\ sensors["ultrasonic"].distance < min_distance_threshold * 100
    /\ Len(sensors["ultrasonic"].alerts) = 2
    /\ Count(sensors["ultrasonic"].alerts, "Proximity_Warning") = 2
    /\ sensors["ultrasonic"].alerts[1].Description = sensors["ultrasonic"].alerts[2].Description

\* C26: the no-motion rule is level-triggered: a sample that reads false
\* appends one 'No Motion' alert if and only if a motion was seen before and
\* more than motion_timeout has passed since the last one; a sample that
\* reads true, or one before the first motion, appends none.
C26_NoMotionLevelTriggered ==
    [][\A t \in Threads :
        (/\ loc[t].pc = "locked"
         /\ Target(t) = "pir"
         /\ Sample(loc[t].res) # "none"
         /\ Commit(t)) =>
            LET timeouts == Count(Appended("pir"), "Motion_Timeout")
                seen == \E i \in 1..Len(fed) : fed[i] = "true"
                since == loc[t].ct - sensors["pir"].last_motion_time
            IN  /\ seen <=> sensors["pir"].last_motion_time # NoTime
                /\ Sample(loc[t].res) = "true" => timeouts = 0
                /\ ~seen => timeouts = 0
                /\ Sample(loc[t].res) = "false" =>
                        timeouts = (IF seen /\ since > motion_timeout * TicksPerSecond
                                    THEN 1 ELSE 0)]_vars

\* a motion, then two samples without motion more than motion_timeout later:
\* each appended a 'No Motion' alert
C26_Witness ==
    /\ fed = <<"true", "false", "false">>
    /\ Count(sensors["pir"].alerts, "Motion_Timeout") = 2
    /\ now - sensors["pir"].last_motion_time > motion_timeout * TicksPerSecond

\* C27: an update of one sensor, by the poller or by a forced refresh,
\* changes only that sensor: no step of update_reading changes a value, a
\* timestamp, a counter or the alert log of another sensor.
C27_UpdateIsLocal ==
    [][\A t \in Threads :
        UpdateStep(t) =>
            \A s \in SensorSet \ {Target(t)} :
                /\ sensors'[s] = sensors[s]
                /\ good'[s] = good[s]]_vars

\* a forced refresh has just committed a reading of one sensor while another
\* sensor holds a reading and an alert of its own
C27_Witness ==
    /\ loc["http"].pc = "get"
    /\ loc["http"].op = "live"
    /\ good[Target("http")]
    /\ \E s \in SensorSet \ {Target("http")} :
            /\ good[s]
            /\ Len(sensors[s].alerts) >= 1
            /\ \A i \in 1..Len(sensors[s].alerts) : sensors[s].alerts[i].anchor = asset_id(s)

\* C28: a sensor's last_reading_time never decreases from one committed
\* update to the next, whichever threads commit: the timestamp a commit
\* stores is never older than the one stored before it.
C28_ReadingTimeNeverDecreases ==
    [][\A s \in SensorSet :
        sensors[s].last_reading_time # NoTime
            => sensors'[s].last_reading_time >= sensors[s].last_reading_time]_vars

\* thread t has measured for sensor s and has still to commit the result
Pending(t, s) ==
    /\ loc[t].pc \in {"measured", "locked"}
    /\ Target(t) = s
    /\ Commits(s, loc[t].res)

\* C29: of two concurrent updates of a sensor the one that measured last
\* commits last, so that its value is the one stored when both are done: no
\* update commits while the result of a strictly earlier measurement of the
\* same sensor is still waiting to be committed over it.
C29_LastMeasuredWins ==
    [][\A t, u \in Threads :
        (/\ t # u
         /\ loc[t].pc = "locked"
         /\ Commit(t)
         /\ Pending(u, Target(t)))
        => loc[u].ct >= loc[t].ct]_vars

\* the sensors whose lock thread t holds
Held(t) == {s \in SensorSet : lock[LockOf(s)] = t}

\* thread t is inside a `with lock:` block
Holding(t) == loc[t].pc \in {"locked", "getting", "listing"}

\* thread t has reached a `with lock:` statement and waits to enter
Requesting(t) ==
    \/ loc[t].pc = "measured" /\ Commits(Target(t), loc[t].res)
    \/ loc[t].pc = "get"
    \/ loc[t].pc = "alerts"

\* C30: no thread holds more than one sensor lock, a thread outside a
\* `with lock:` block holds none and the thread inside one can always run to
\* its end and release, so there is no deadlock; under fair scheduling every
\* thread that requests a lock is eventually granted it.
C30_NoDeadlock ==
    /\ [](\A t \in Threads :
            /\ Cardinality(Held(t)) <= 1
            /\ ~Holding(t) => Held(t) = {}
            /\ Holding(t) => /\ Held(t) = {Target(t)}
                             /\ ENABLED (Commit(t) \/ GetReturn(t) \/ AlertsReturn(t)))
    /\ \A t \in Threads : Requesting(t) ~> Holding(t)

\* the listing waits for the lock of the motion sensor, which the poller
\* holds for its commit
C30_Witness ==
    /\ loc["poller"].pc = "locked"
    /\ loc["http"].pc = "alerts"
    /\ Target("http") = Target("poller")
    /\ Held("poller") = {Target("poller")}
    /\ ~ENABLED AlertsAcquire("http")

\* C31: alert ids are unique within a sensor's log: no two alerts of one
\* sensor carry the same id, whether one update appended both or two updates
\* in quick succession.
C31_AlertIdsUnique ==
    \A s \in SensorSet :
        \A i, j \in 1..Len(sensors[s].alerts) :
            i # j => sensors[s].alerts[i].id # sensors[s].alerts[j].id

\* what Adafruit_DHT.read_retry can hand back: every humidity from 0 to
\* 100 % in tenths, temperatures from -10 to 70 C in steps of half a degree
DHT11Humidities == 0..1000
DHT11Temperatures == {5 * k : k \in -20..140}

\* the failure classes of the four temperature/humidity rules
DHT11Classes == {"Temperature_High", "Temperature_Low", "Humidity_High", "Humidity_Low"}

\* an update_reading that is handed humidity h and temperature tp accepts the
\* sample and appends an alert of class c to the log as it is now
Fires(c, h, tp) ==
    LET r == read_temp_humidity(FALSE, [dht |-> "val", humidity |-> h, temperature |-> tp])
    IN  /\ r # None
        /\ LET after == commit("dht11", sensors["dht11"], r, now, now)
               q == SubSeq(after.alerts, Len(sensors["dht11"].alerts) + 1, Len(after.alerts))
           IN  c \in Classes(q)

\* C32: each of the four temperature/humidity rules can fire: for high and
\* low temperature, high and low humidity there is a sample that the range
\* validation accepts and for which update_reading appends that alert.
C32_EveryRuleCanFire ==
    \A c \in DHT11Classes :
        \E h \in DHT11Humidities, tp \in DHT11Temperatures : Fires(c, h, tp)

====
